---- MODULE Spec2Model ----
(***************************************************************************)
(* VT Shared Governance Tracker: the browser-local data layer.             *)
(*                                                                         *)
(* The model covers the four localStorage records (session, submissions,   *)
(* meetings override, assignments override), the functions of utils.js /   *)
(* auth.js / dashboard.js / admin.js that read and write them, and the     *)
(* admin and senator event handlers that call those functions.             *)
(*                                                                         *)
(* Strings that the code trims or scans (pids, meeting ids) are sequences  *)
(* of one-character strings.  A localStorage item is a JSON text, modelled *)
(* as a sequence of tokens; JSON.stringify and JSON.parse convert between  *)
(* values and token sequences, and JSON.parse throws on a malformed text.  *)
(*                                                                         *)
(* A meeting carries id, committee, name and time; its date and location   *)
(* are edited and stored by the same code path as time and are left out.   *)
(***************************************************************************)
EXTENDS Integers, Sequences, FiniteSets, TLC

VARIABLES
    localStorage,     \* window.localStorage: key -> [present, text]
    now,              \* the wall clock read by Date.now() / new Date()
    users,            \* users.json, the static user directory
    meetingsFile,     \* meetings.json as currently deployed
    assignmentsFile,  \* assignments.json as currently deployed
    tabs,             \* the open browser tabs
    location,         \* per tab: the page window.location points to
    loaded,           \* per tab: whether that page's script has run
    session,          \* per tab: the page's `session` (result of requireAuth)
    meetings,         \* per tab: the page's in-memory `meetings` array
    assignments,      \* per tab: the page's in-memory `assignments` array
    fileReads,        \* FileReader reads in flight (onload not yet delivered)
    lastAlert,        \* the message of the last blocking alert() dialog
    lastWrite,        \* history: last value handed to save*Override, per key
    vres,             \* last call of validateUser or of the calendar: arguments and result
    notice            \* per tab: the notice last inserted into a dashboard form

vars == << localStorage, now, users, meetingsFile, assignmentsFile, tabs,
           location, loaded, session, meetings, assignments, fileReads,
           lastAlert, lastWrite, vres, notice >>

(***************************************************************************)
(* Bounds of the model.                                                    *)
(***************************************************************************)
MaxClock == 2        \* the clock takes the values 1..MaxClock
MaxSubmissions == 2  \* longest submissions collection explored
MaxMeetings == 3     \* longest meetings list, and largest meeting number, explored
AppMaxSubmissions == 1  \* the same two bounds in the application-wide specification
AppMaxMeetings == 2
MaxPidLen == 2       \* longest pid string given to validateUser
MaxUsers == 2        \* longest user directory given to validateUser
MaxExisting == 1     \* longest collection stored before the imports begin
MaxCandidates == 2   \* longest list in an import file
MaxStored == 3       \* longest collection the imports are followed to
MaxIdDigits == 2     \* longest integer suffix of a meeting id in meetings.json
MaxIdList == 2       \* longest meetings.json whose ids are drawn freely
MaxAssignments == 2  \* longest assignments.json drawn freely

(***************************************************************************)
(* JavaScript values.                                                      *)
(***************************************************************************)
null == [isNull |-> TRUE]
undefined == [isUndefined |-> TRUE]

RECURSIVE SeqToSet(_)
SeqToSet(s) == IF s = <<>> THEN {} ELSE {Head(s)} \cup SeqToSet(Tail(s))

\* Array.prototype.includes
Includes(s, x) == \E i \in 1..Len(s) : s[i] = x

\* Array.prototype.findIndex, 1-based; 0 when no element satisfies Test
FindIndex(s, Test(_)) ==
    IF \E i \in 1..Len(s) : Test(s[i])
    THEN CHOOSE i \in 1..Len(s) : Test(s[i]) /\ \A j \in 1..(i - 1) : ~Test(s[j])
    ELSE 0

IsPrefix(s, t) == Len(s) <= Len(t) /\ SubSeq(t, 1, Len(s)) = s

\* all sequences over S of length at most n
SeqsUpTo(S, n) == UNION { [1..k -> S] : k \in 0..n }

\* String.prototype.trim, for strings over the blank " " and other characters
RECURSIVE TrimLeft(_)
TrimLeft(s) == IF s # <<>> /\ Head(s) = " " THEN TrimLeft(Tail(s)) ELSE s

RECURSIVE TrimRight(_)
TrimRight(s) ==
    IF s # <<>> /\ s[Len(s)] = " " THEN TrimRight(SubSeq(s, 1, Len(s) - 1)) ELSE s

Trim(s) == TrimRight(TrimLeft(s))

(***************************************************************************)
(* JSON texts.  A text is a sequence of tokens: "[", "]", "," and one      *)
(* token per serialized object; "x" stands for any other character.        *)
(***************************************************************************)
LBracket == [tok |-> "["]
RBracket == [tok |-> "]"]
Comma == [tok |-> ","]
Garbage == [tok |-> "x"]
ObjectToken(o) == [tok |-> "{}", obj |-> o]
IsObjectToken(t) == t.tok = "{}"

RECURSIVE JoinObjects(_)
JoinObjects(list) ==
    IF list = <<>> THEN <<>>
    ELSE IF Len(list) = 1 THEN << ObjectToken(list[1]) >>
    ELSE << ObjectToken(list[1]), Comma >> \o JoinObjects(Tail(list))

\* JSON.stringify of an array of objects
JSONstringifyArray(list) == << LBracket >> \o JoinObjects(list) \o << RBracket >>

\* JSON.stringify of a single object
JSONstringifyObject(o) == << ObjectToken(o) >>

IsArrayText(text) ==
    /\ Len(text) >= 2
    /\ text[1] = LBracket
    /\ text[Len(text)] = RBracket
    /\ LET inner == SubSeq(text, 2, Len(text) - 1)
       IN  \/ inner = <<>>
           \/ /\ Len(inner) % 2 = 1
              /\ \A i \in 1..Len(inner) :
                    IF i % 2 = 1 THEN IsObjectToken(inner[i]) ELSE inner[i] = Comma

IsObjectText(text) == Len(text) = 1 /\ IsObjectToken(text[1])

\* JSON.parse: the parsed value, or a thrown SyntaxError
JSONparse(text) ==
    IF IsObjectText(text) THEN [threw |-> FALSE, value |-> text[1].obj]
    ELSE IF IsArrayText(text)
    THEN [threw |-> FALSE,
          value |-> [i \in 1..((Len(text) - 1) \div 2) |-> text[2 * i].obj]]
    ELSE [threw |-> TRUE, value |-> undefined]

(***************************************************************************)
(* localStorage.                                                           *)
(***************************************************************************)
SESSION == "vt_gov_session"
SUBMISSIONS == "vt_gov_submissions"
MEETINGS_OVERRIDE == "vt_gov_meetings_override"
ASSIGNMENTS_OVERRIDE == "vt_gov_assignments_override"
GOV_STORAGE_KEYS == {SESSION, SUBMISSIONS, MEETINGS_OVERRIDE, ASSIGNMENTS_OVERRIDE}

Absent == [present |-> FALSE, text |-> <<>>]
Item(text) == [present |-> TRUE, text |-> text]

\* localStorage.getItem: the stored item; Absent stands for the null result
getItem(store, key) == store[key]

\* truthiness of a getItem result: null and the empty string are falsy
Truthy(item) == item.present /\ item.text # <<>>

\* localStorage.setItem / removeItem, as the resulting store
setItem(store, key, text) == [store EXCEPT ![key] = Item(text)]
removeItem(store, key) == [store EXCEPT ![key] = Absent]

(***************************************************************************)
(* Static reference data (README "Data Files").                            *)
(***************************************************************************)
Roles == {"senator", "admin"}
Directory ==
    << [pid |-> <<"a">>, password |-> "admin123", role |-> "admin"],
       [pid |-> <<"s">>, password |-> "senator1", role |-> "senator"],
       [pid |-> <<"t">>, password |-> "senator2", role |-> "senator"] >>

\* committee names, listed in the order Array.prototype.sort gives them
CommitteeNames ==
    << "Academic Affairs Committee", "Athletics Committee", "Budget Committee",
       "Campus Safety Committee", "Diversity Committee", "Elections Committee",
       "Facilities Committee", "Graduate Studies Committee", "Honor Code Committee",
       "Library Committee", "New Committee", "Student Life Committee",
       "Technology Committee" >>
AcademicAffairs == CommitteeNames[1]
NewCommittee == CommitteeNames[11]
StudentLife == CommitteeNames[12]

Meeting(id, committee, name, time) ==
    [id |-> id, committee |-> committee, name |-> name, time |-> time]

\* the deployed meetings.json, before and after a redeployment
MeetingsFileV1 ==
    << Meeting(<<"m", "1">>, AcademicAffairs, "AAC Meeting", "10:30 AM"),
       Meeting(<<"m", "2">>, StudentLife, "SLC Meeting", "TBD") >>
MeetingsFileV2 ==
    << Meeting(<<"m", "1">>, AcademicAffairs, "AAC Meeting", "1:00 PM") >>

Assignment(pid, committees) == [pid |-> pid, committees |-> committees]

\* the deployed assignments.json, before and after a redeployment
AssignmentsFileV1 == << Assignment(<<"s">>, << AcademicAffairs >>) >>
AssignmentsFileV2 ==
    << Assignment(<<"s">>, << StudentLife, AcademicAffairs >>),
       Assignment(<<"t">>, << StudentLife >>) >>

(***************************************************************************)
(* utils.js: the override store.                                           *)
(***************************************************************************)
\* getSubmissions(): the stored collection, [] when absent or unparsable
getSubmissions ==
    LET stored == getItem(localStorage, SUBMISSIONS)
    IN  IF Truthy(stored)
        THEN LET parsed == JSONparse(stored.text)
             IN  IF parsed.threw THEN <<>> ELSE parsed.value
        ELSE <<>>

\* Variant: the collection is written under the session key.
saveSubmission_SessionKey(submission) ==
    LET submissions == Append(getSubmissions, submission)
    IN  localStorage' = setItem(localStorage, SESSION, JSONstringifyArray(submissions))

\* Variant: the new submission is put in front (unshift).
saveSubmission_Unshift(submission) ==
    LET submissions == << submission >> \o getSubmissions
    IN  localStorage' = setItem(localStorage, SUBMISSIONS, JSONstringifyArray(submissions))

\* Variant: a stored record with the same triple is replaced, not added to.
saveSubmission_Upsert(submission) ==
    LET Same(x) == << x.pid, x.meetingId, x.timestamp >>
                     = << submission.pid, submission.meetingId, submission.timestamp >>
        idx == FindIndex(getSubmissions, Same)
        submissions == IF idx > 0 THEN [getSubmissions EXCEPT ![idx] = submission]
                       ELSE Append(getSubmissions, submission)
    IN  localStorage' = setItem(localStorage, SUBMISSIONS, JSONstringifyArray(submissions))

\* Variant: the stored collection is not read; only the new submission is written.
saveSubmission_Overwrite(submission) ==
    localStorage' = setItem(localStorage, SUBMISSIONS, JSONstringifyArray(<< submission >>))

\* saveSubmission(submission): read all, push, write all
saveSubmission(submission) ==
    LET submissions == Append(getSubmissions, submission)
    IN  localStorage' = setItem(localStorage, SUBMISSIONS, JSONstringifyArray(submissions))

\* Variant: an override holding no meeting is taken for "no override".
getMeetingsWithOverride_EmptyIsAbsent(meetingsFromFile) ==
    LET override == getItem(localStorage, MEETINGS_OVERRIDE)
    IN  IF Truthy(override)
        THEN LET parsed == JSONparse(override.text)
             IN  IF parsed.threw \/ parsed.value = <<>>
                 THEN meetingsFromFile ELSE parsed.value
        ELSE meetingsFromFile

\* getMeetingsWithOverride(meetingsFromFile)
getMeetingsWithOverride(meetingsFromFile) ==
    LET override == getItem(localStorage, MEETINGS_OVERRIDE)
    IN  IF Truthy(override)
        THEN LET parsed == JSONparse(override.text)
             IN  IF parsed.threw THEN meetingsFromFile ELSE parsed.value
        ELSE meetingsFromFile

\* Variant: an unparsable override reads as the empty list.
getAssignmentsWithOverride_CatchReturnsEmpty(assignmentsFromFile) ==
    LET override == getItem(localStorage, ASSIGNMENTS_OVERRIDE)
    IN  IF Truthy(override)
        THEN LET parsed == JSONparse(override.text)
             IN  IF parsed.threw THEN <<>> ELSE parsed.value
        ELSE assignmentsFromFile

\* getAssignmentsWithOverride(assignmentsFromFile)
getAssignmentsWithOverride(assignmentsFromFile) ==
    LET override == getItem(localStorage, ASSIGNMENTS_OVERRIDE)
    IN  IF Truthy(override)
        THEN LET parsed == JSONparse(override.text)
             IN  IF parsed.threw THEN assignmentsFromFile ELSE parsed.value
        ELSE assignmentsFromFile

Written(value) == [written |-> TRUE, value |-> value]
NeverWritten == [written |-> FALSE, value |-> <<>>]

\* saveMeetingsOverride(meetings)
saveMeetingsOverride(list) ==
    /\ localStorage' = setItem(localStorage, MEETINGS_OVERRIDE, JSONstringifyArray(list))
    /\ lastWrite' = [lastWrite EXCEPT ![MEETINGS_OVERRIDE] = Written(list)]

\* saveAssignmentsOverride(assignments)
saveAssignmentsOverride(list) ==
    /\ localStorage' = setItem(localStorage, ASSIGNMENTS_OVERRIDE, JSONstringifyArray(list))
    /\ lastWrite' = [lastWrite EXCEPT ![ASSIGNMENTS_OVERRIDE] = Written(list)]

(***************************************************************************)
(* auth.js: credentials, session, role guard.                              *)
(***************************************************************************)
\* Variant: the typed pid is compared untrimmed.
validateUser_NoTrim(pid, password, directory) ==
    LET Match(u) == Trim(u.pid) = pid /\ u.password = password
        idx == FindIndex(directory, Match)
    IN  IF idx = 0 THEN null ELSE directory[idx]

\* validateUser(pid, password, users): the first matching entry, or null
validateUser(pid, password, directory) ==
    LET Match(u) == Trim(u.pid) = Trim(pid) /\ u.password = password
        idx == FindIndex(directory, Match)
    IN  IF idx = 0 THEN null ELSE directory[idx]

\* the record createSession(user) stores
SessionRecord(user) == [pid |-> user.pid, role |-> user.role, timestamp |-> now]

\* Variant: an existing session record is kept.
createSession_KeepsExisting(user) ==
    localStorage' =
        IF getItem(localStorage, SESSION).present THEN localStorage
        ELSE setItem(localStorage, SESSION, JSONstringifyObject(SessionRecord(user)))

\* createSession(user)
createSession(user) ==
    localStorage' = setItem(localStorage, SESSION, JSONstringifyObject(SessionRecord(user)))

\* getSession(): the stored session, null when absent or unparsable
getSession ==
    LET stored == getItem(localStorage, SESSION)
    IN  IF ~Truthy(stored) THEN null
        ELSE LET parsed == JSONparse(stored.text)
             IN  IF parsed.threw THEN null ELSE parsed.value

\* Variant: logout wipes the whole store (localStorage.clear()).
clearSession_ClearsStore == localStorage' = [k \in GOV_STORAGE_KEYS |-> Absent]

\* clearSession()
clearSession == localStorage' = removeItem(localStorage, SESSION)

IndexPage == "index.html"
DashboardPage == "dashboard.html"
AdminPage == "admin.html"
Pages == {IndexPage, DashboardPage, AdminPage}
NoRedirect == "(stay)"
NoRole == ""   \* requireAuth() called without a role: requiredRole is falsy

\* Variant: a role mismatch is sent to the login page.
requireAuth_MismatchToLogin(requiredRole) ==
    LET s == getSession
    IN  IF s = null THEN [ret |-> null, href |-> IndexPage]
        ELSE IF requiredRole # NoRole /\ s.role # requiredRole
        THEN [ret |-> null, href |-> IndexPage]
        ELSE [ret |-> s, href |-> NoRedirect]

\* Variant: on a role mismatch each role is sent to the page of the other.
requireAuth_Swapped(requiredRole) ==
    LET s == getSession
    IN  IF s = null THEN [ret |-> null, href |-> IndexPage]
        ELSE IF requiredRole # NoRole /\ s.role # requiredRole
        THEN [ret |-> null,
              href |-> IF s.role = "admin" THEN DashboardPage ELSE AdminPage]
        ELSE [ret |-> s, href |-> NoRedirect]

\* requireAuth(requiredRole): the value returned and the page redirected to
requireAuth(requiredRole) ==
    LET s == getSession
    IN  IF s = null THEN [ret |-> null, href |-> IndexPage]
        ELSE IF requiredRole # NoRole /\ s.role # requiredRole
        THEN [ret |-> null,
              href |-> IF s.role = "admin" THEN AdminPage ELSE DashboardPage]
        ELSE [ret |-> s, href |-> NoRedirect]

(***************************************************************************)
(* dashboard.js: what a senator sees.                                      *)
(***************************************************************************)
\* a pid written in a JSON file as a number, not as a string
NumberValue(ds) == << "#" >> \o ds
IsNumberValue(v) == v # <<>> /\ v[1] = "#"

\* String(v): the decimal writing of a number, a string as it is
String(v) == IF IsNumberValue(v) THEN Tail(v) ELSE v

\* assignment.committees || []
CommitteesOrEmpty(a) == IF "committees" \in DOMAIN a THEN a.committees ELSE <<>>

\* Variant: the pids are compared without conversion.
getAssignedCommittees_NoConversion(pid, list) ==
    LET Same(a) == a.pid = pid
        idx == FindIndex(list, Same)
    IN  IF idx = 0 THEN <<>> ELSE CommitteesOrEmpty(list[idx])

\* getAssignedCommittees(pid, assignments)
getAssignedCommittees(pid, list) ==
    LET Same(a) == String(a.pid) = String(pid)
        idx == FindIndex(list, Same)
    IN  IF idx = 0 THEN <<>> ELSE CommitteesOrEmpty(list[idx])

\* filterMeetingsByCommittees(meetings, committees)
filterMeetingsByCommittees(list, committees) ==
    LET Mine(m) == Includes(committees, m.committee)
    IN  SelectSeq(list, Mine)

(***************************************************************************)
(* Submissions.                                                            *)
(***************************************************************************)
\* a string field that is missing from an object (reads as undefined)
MissingString == << "undefined" >>

\* a JSON object or array found where a string field is expected
ObjectString == << "{}" >>

\* truthiness of a string field: undefined and "" are falsy
TruthyString(str) == str # <<>> /\ str # MissingString

\* truthiness of a timestamp field: clock values are 1, 2, ...; a missing or
\* empty timestamp is written 0
TruthyTimestamp(ts) == ts # 0

Submission(pid, committeeName, meetingName, meetingId, timestamp, attended, notes) ==
    [pid |-> pid, committeeName |-> committeeName, meetingName |-> meetingName,
     meetingId |-> meetingId, timestamp |-> timestamp,
     attendanceConfirmed |-> attended, notes |-> notes]

\* the (pid, meetingId, timestamp) triple of a submission
Triple(sub) == << sub.pid, sub.meetingId, sub.timestamp >>

\* how many records of a collection carry a given triple
CountTriple(list, triple) ==
    Cardinality({ i \in 1..Len(list) : Triple(list[i]) = triple })

\* handleSubmission: meetings.find(m => m.id === meetingId) in the submit listener
FindMeeting(list, id) ==
    LET Same(m) == m.id = id
    IN  list[FindIndex(list, Same)]

\* handleSubmission: the submission object it builds
NewSubmission(sess, meeting, attendance, notes) ==
    Submission(sess.pid, meeting.committee, meeting.name, meeting.id, now,
               attendance, notes)

(***************************************************************************)
(* Admin helpers.                                                          *)
(***************************************************************************)
Digits == << "0", "1", "2", "3", "4", "5", "6", "7", "8", "9" >>
IsDigit(c) == \E i \in 1..Len(Digits) : Digits[i] = c
DigitValue(c) == (CHOOSE i \in 1..Len(Digits) : Digits[i] = c) - 1

\* id.replace(/\D/g, ''): the digits of a string
OnlyDigits(str) == SelectSeq(str, IsDigit)

\* parseInt(digits, 10) for a non-empty digit string
RECURSIVE ParseInt(_)
ParseInt(ds) ==
    IF Len(ds) = 1 THEN DigitValue(ds[1])
    ELSE 10 * ParseInt(SubSeq(ds, 1, Len(ds) - 1)) + DigitValue(ds[Len(ds)])

\* the decimal digits of a natural number
RECURSIVE ToDigits(_)
ToDigits(n) ==
    IF n < 10 THEN << Digits[n + 1] >>
    ELSE ToDigits(n \div 10) \o << Digits[(n % 10) + 1] >>

Max(S) == CHOOSE x \in S : \A y \in S : y <= x

\* Variant: the new id counts the meetings instead of reading their ids.
generateMeetingId_Count(list) == << "m" >> \o ToDigits(Len(list) + 1)

\* generateMeetingId(meetings): NaN (no digits) and 0 are dropped by filter(Boolean)
generateMeetingId(list) ==
    LET ids == { ParseInt(OnlyDigits(list[i].id)) :
                   i \in { j \in 1..Len(list) : OnlyDigits(list[j].id) # <<>> } } \ {0}
        max == IF ids # {} THEN Max(ids) ELSE 0
    IN  << "m" >> \o ToDigits(max + 1)

Rank(c) == CHOOSE i \in 1..Len(CommitteeNames) : CommitteeNames[i] = c

RemoveAt(s, i) == SubSeq(s, 1, i - 1) \o SubSeq(s, i + 1, Len(s))

\* Array.prototype.sort on committee names
RECURSIVE Sort(_)
Sort(s) ==
    IF s = <<>> THEN <<>>
    ELSE LET m == CHOOSE i \in 1..Len(s) :
                      /\ \A j \in 1..Len(s) : Rank(s[i]) <= Rank(s[j])
                      /\ \A j \in 1..(i - 1) : Rank(s[j]) # Rank(s[i])
         IN  << s[m] >> \o Sort(RemoveAt(s, m))

\* [...new Set(list)]: the distinct elements in order of first occurrence
RECURSIVE Unique(_)
Unique(s) ==
    IF s = <<>> THEN <<>>
    ELSE LET init == Unique(SubSeq(s, 1, Len(s) - 1))
             last == s[Len(s)]
         IN  IF Includes(init, last) THEN init ELSE Append(init, last)

(***************************************************************************)
(* calendar.js: committee colours.                                         *)
(***************************************************************************)
palette ==
    << "#861f41", "#e87722", "#2a9d8f", "#457b9d", "#7b2cbf", "#ef476f",
       "#118ab2", "#6a994e", "#bc6c25", "#3a86ff", "#ff6b6b", "#2b9348" >>

\* meetings.map(m => m.committee).filter(Boolean)
NamedCommittees(list) ==
    LET Named(c) == c # ""
    IN  SelectSeq([i \in 1..Len(list) |-> list[i].committee], Named)

\* Variant: the committees are numbered in the order of the meetings.
buildCommitteeColorMap_Unsorted(list) ==
    LET committees == Unique(NamedCommittees(list))
    IN  [c \in SeqToSet(committees) |->
            LET i == CHOOSE k \in 1..Len(committees) : committees[k] = c
            IN  palette[((i - 1) % Len(palette)) + 1]]

\* buildCommitteeColorMap(meetings); indices are 1-based here, palette[i % 12]
\* of the code is palette[((i - 1) % 12) + 1]
buildCommitteeColorMap(list) ==
    LET committees == Sort(Unique(NamedCommittees(list)))
    IN  [c \in SeqToSet(committees) |->
            LET i == CHOOSE k \in 1..Len(committees) : committees[k] = c
            IN  palette[((i - 1) % Len(palette)) + 1]]

(***************************************************************************)
(* Initial state: a fresh browser profile with one tab on the login page.  *)
(***************************************************************************)
AllTabs == {"A", "B"}
NoAlert == [kind |-> "none"]
InvalidFileAlert == [kind |-> "invalid"]
ImportedAlert(count, total) == [kind |-> "imported", imported |-> count, total |-> total]
NoCall == [called |-> FALSE]
NoNotice == ""
ReceivedNotice == "Submission received. Thank you!"
TooLargeNotice == "File too large. Maximum size is 2MB."

InitBrowser ==
    /\ localStorage = [k \in GOV_STORAGE_KEYS |-> Absent]
    /\ now = 1
    /\ location = [t \in AllTabs |-> IndexPage]
    /\ loaded = [t \in AllTabs |-> FALSE]
    /\ session = [t \in AllTabs |-> null]
    /\ meetings = [t \in AllTabs |-> <<>>]
    /\ assignments = [t \in AllTabs |-> <<>>]
    /\ fileReads = {}
    /\ lastAlert = NoAlert
    /\ lastWrite = [k \in {MEETINGS_OVERRIDE, ASSIGNMENTS_OVERRIDE} |-> NeverWritten]
    /\ vres = NoCall
    /\ notice = [t \in AllTabs |-> NoNotice]

Init ==
    /\ InitBrowser
    /\ users = Directory
    /\ meetingsFile = MeetingsFileV1
    /\ assignmentsFile = AssignmentsFileV1
    /\ tabs = {"A"}

pageVars == << location, loaded, session, meetings, assignments, notice >>
staticVars == << users, meetingsFile, assignmentsFile, tabs >>

(***************************************************************************)
(* Environment: the clock and redeployments of the static files.           *)
(***************************************************************************)
\* time passes between two reads of the clock
Tick ==
    /\ now < MaxClock
    /\ now' = now + 1
    /\ UNCHANGED << localStorage, staticVars, pageVars, fileReads, lastAlert,
                    lastWrite, vres >>

\* the site is redeployed with other meetings.json and assignments.json
StaticChange ==
    /\ meetingsFile' = IF meetingsFile = MeetingsFileV1 THEN MeetingsFileV2 ELSE MeetingsFileV1
    /\ assignmentsFile' =
           IF assignmentsFile = AssignmentsFileV1 THEN AssignmentsFileV2 ELSE AssignmentsFileV1
    /\ UNCHANGED << localStorage, now, users, tabs, pageVars, fileReads, lastAlert,
                    lastWrite, vres >>

(***************************************************************************)
(* Pages.                                                                  *)
(***************************************************************************)
\* the tab leaves its page: the page's variables and pending reads are gone
Unload(t, page) ==
    /\ location' = [location EXCEPT ![t] = page]
    /\ loaded' = [loaded EXCEPT ![t] = FALSE]
    /\ session' = [session EXCEPT ![t] = null]
    /\ meetings' = [meetings EXCEPT ![t] = <<>>]
    /\ assignments' = [assignments EXCEPT ![t] = <<>>]
    /\ notice' = [notice EXCEPT ![t] = NoNotice]
    /\ fileReads' = { r \in fileReads : r.tab # t }

\* the user opens or reloads a page
Navigate(t, page) ==
    /\ t \in tabs
    /\ loaded[t]
    /\ Unload(t, page)
    /\ UNCHANGED << localStorage, now, staticVars, lastAlert, lastWrite, vres >>

\* the role each protected page passes to requireAuth
RequiredRole(page) ==
    IF page = AdminPage THEN "admin"
    ELSE IF page = DashboardPage THEN "senator"
    ELSE NoRole

\* the script of the page runs: role guard, then the data is loaded
PageLoad(t) ==
    /\ t \in tabs
    /\ ~loaded[t]
    /\ IF location[t] = IndexPage
       THEN /\ loaded' = [loaded EXCEPT ![t] = TRUE]
            /\ UNCHANGED << location, session, meetings, assignments, notice >>
       ELSE LET auth == requireAuth(RequiredRole(location[t]))
                allMeetings == getMeetingsWithOverride(meetingsFile)
                allAssignments == getAssignmentsWithOverride(assignmentsFile)
            IN  IF auth.ret = null
                THEN /\ location' = [location EXCEPT ![t] = auth.href]
                     /\ UNCHANGED << loaded, session, meetings, assignments, notice >>
                ELSE /\ loaded' = [loaded EXCEPT ![t] = TRUE]
                     /\ session' = [session EXCEPT ![t] = auth.ret]
                     /\ assignments' =
                          [assignments EXCEPT ![t] =
                             IF location[t] = AdminPage THEN allAssignments ELSE <<>>]
                     /\ meetings' =
                          [meetings EXCEPT ![t] =
                             IF location[t] = AdminPage THEN allMeetings
                             ELSE filterMeetingsByCommittees(allMeetings,
                                    getAssignedCommittees(auth.ret.pid, allAssignments))]
                     /\ UNCHANGED << location, notice >>
    /\ UNCHANGED << localStorage, now, staticVars, fileReads, lastAlert, lastWrite, vres >>

\* the login form: validateUser, then createSession and the role's page
Login(t, pid, password) ==
    /\ t \in tabs
    /\ location[t] = IndexPage
    /\ loaded[t]
    /\ LET user == validateUser(pid, password, users)
       IN  /\ user # null
           /\ createSession(user)
           /\ Unload(t, IF user.role = "admin" THEN AdminPage ELSE DashboardPage)
    /\ UNCHANGED << now, staticVars, lastAlert, lastWrite, vres >>

\* the logout button: clearSession, then the login page
Logout(t) ==
    /\ t \in tabs
    /\ location[t] # IndexPage
    /\ loaded[t]
    /\ clearSession
    /\ Unload(t, IndexPage)
    /\ UNCHANGED << now, staticVars, lastAlert, lastWrite, vres >>

(***************************************************************************)
(* Senator dashboard.                                                      *)
(***************************************************************************)
\* the form of the i-th meeting card is submitted
handleSubmission(t, i, attendance, notes) ==
    /\ t \in tabs
    /\ location[t] = DashboardPage
    /\ loaded[t]
    /\ i \in 1..Len(meetings[t])
    /\ LET meeting == FindMeeting(meetings[t], meetings[t][i].id)
       IN  saveSubmission(NewSubmission(session[t], meeting, attendance, notes))
    /\ notice' = [notice EXCEPT ![t] = ReceivedNotice]
    /\ UNCHANGED << now, staticVars, location, loaded, session, meetings, assignments,
                    fileReads, lastAlert, lastWrite, vres >>

\* setTimeout(() => alert.remove(), 5000): the notice goes away
noticeTimeout(t) ==
    /\ t \in tabs
    /\ notice[t] # NoNotice
    /\ notice' = [notice EXCEPT ![t] = NoNotice]
    /\ UNCHANGED << localStorage, now, staticVars, location, loaded, session, meetings,
                    assignments, fileReads, lastAlert, lastWrite, vres >>

(***************************************************************************)
(* Senator dashboard with attachments (the dashboard module of README.md). *)
(***************************************************************************)
MAX_ATTACHMENT_BYTES == 2 * 1024 * 1024

\* fileInput?.files?.[0]: the chosen file, or undefined
NoFile == [chosen |-> FALSE]
File(name, size) == [chosen |-> TRUE, name |-> name, size |-> size]

\* reader.readAsDataURL(file): the bytes of the file, text-encoded
readAsDataURL(file) == [scheme |-> "data", bytes |-> file.size]

\* Variant: a file of exactly the maximum size is refused as well.
TooLarge_Inclusive(file) == file.size >= MAX_ATTACHMENT_BYTES

\* file.size > MAX_ATTACHMENT_BYTES
TooLarge(file) == file.size > MAX_ATTACHMENT_BYTES

\* submission.attachmentName = ...; submission.attachmentData = ...
WithAttachment(sub, name, data) ==
    [pid |-> sub.pid, committeeName |-> sub.committeeName,
     meetingName |-> sub.meetingName, meetingId |-> sub.meetingId,
     timestamp |-> sub.timestamp, attendanceConfirmed |-> sub.attendanceConfirmed,
     notes |-> sub.notes, attachmentName |-> name, attachmentData |-> data]

HasAttachment(sub) == "attachmentData" \in DOMAIN sub

\* saveAndConfirm(submission, formEl)
saveAndConfirm(t, submission) ==
    /\ saveSubmission(submission)
    /\ notice' = [notice EXCEPT ![t] = ReceivedNotice]

\* handleSubmission(session, meeting, attendance, notes, formEl, fileInput)
handleSubmissionFile(t, i, attendance, notes, file) ==
    /\ t \in tabs
    /\ location[t] = DashboardPage
    /\ loaded[t]
    /\ i \in 1..Len(meetings[t])
    /\ LET meeting == FindMeeting(meetings[t], meetings[t][i].id)
           submission == NewSubmission(session[t], meeting, attendance, notes)
       IN  IF file.chosen
           THEN IF TooLarge(file)
                THEN /\ notice' = [notice EXCEPT ![t] = TooLargeNotice]
                     /\ UNCHANGED << localStorage, fileReads >>
                ELSE /\ fileReads' = fileReads \cup
                            {[tab |-> t, kind |-> "attachment",
                              submission |-> submission, file |-> file]}
                     /\ UNCHANGED << localStorage, notice >>
           ELSE /\ saveAndConfirm(t, submission)
                /\ UNCHANGED fileReads
    /\ UNCHANGED << now, staticVars, location, loaded, session, meetings, assignments,
                    lastAlert, lastWrite, vres >>

\* reader.onload of handleSubmission: the attachment is added and the
\* submission saved
attachmentOnload(r) ==
    /\ r \in fileReads
    /\ r.kind = "attachment"
    /\ fileReads' = fileReads \ {r}
    /\ saveAndConfirm(r.tab,
          WithAttachment(r.submission, r.file.name, readAsDataURL(r.file)))
    /\ UNCHANGED << now, staticVars, location, loaded, session, meetings, assignments,
                    lastAlert, lastWrite, vres >>

(***************************************************************************)
(* Admin dashboard: meetings.                                              *)
(***************************************************************************)
OnAdminPage(t) == t \in tabs /\ location[t] = AdminPage /\ loaded[t]

adminFrame ==
    << now, staticVars, location, loaded, session, fileReads, lastAlert, vres, notice >>

\* meeting[this.dataset.field] = this.value
SetField(meeting, field, value) ==
    IF field = "committee" THEN [meeting EXCEPT !.committee = value]
    ELSE IF field = "name" THEN [meeting EXCEPT !.name = value]
    ELSE [meeting EXCEPT !.time = value]

\* Variant: the handler starts from the persisted override, not from the
\* list of its page.
editMeeting_Reloads(t, i, field, value) ==
    /\ OnAdminPage(t)
    /\ i \in 1..Len(meetings[t])
    /\ LET latest == getMeetingsWithOverride(meetings[t])
           Same(m) == m.id = meetings[t][i].id
           k == FindIndex(latest, Same)
           list == IF k = 0 THEN latest
                   ELSE [latest EXCEPT ![k] = SetField(@, field, value)]
       IN  /\ meetings' = [meetings EXCEPT ![t] = list]
           /\ saveMeetingsOverride(list)
    /\ UNCHANGED << adminFrame, assignments >>

\* an inline-edit input of row i changes: the first meeting with the row's id
\* is updated in place and the list is saved
editMeeting(t, i, field, value) ==
    /\ OnAdminPage(t)
    /\ i \in 1..Len(meetings[t])
    /\ LET Same(m) == m.id = meetings[t][i].id
           k == FindIndex(meetings[t], Same)
           list == [meetings[t] EXCEPT ![k] = SetField(@, field, value)]
       IN  /\ meetings' = [meetings EXCEPT ![t] = list]
           /\ saveMeetingsOverride(list)
    /\ UNCHANGED << adminFrame, assignments >>

\* Variant: the override is saved, but the page keeps the list it had.
deleteMeeting_KeepsList(t, i) ==
    /\ OnAdminPage(t)
    /\ i \in 1..Len(meetings[t])
    /\ LET Other(m) == m.id # meetings[t][i].id
           newMeetings == SelectSeq(meetings[t], Other)
       IN  saveMeetingsOverride(newMeetings)
    /\ UNCHANGED << adminFrame, assignments, meetings >>

\* the Remove button of row i: every meeting with the row's id is dropped
deleteMeeting(t, i) ==
    /\ OnAdminPage(t)
    /\ i \in 1..Len(meetings[t])
    /\ LET Other(m) == m.id # meetings[t][i].id
           newMeetings == SelectSeq(meetings[t], Other)
       IN  /\ meetings' = [meetings EXCEPT ![t] = newMeetings]
           /\ saveMeetingsOverride(newMeetings)
    /\ UNCHANGED << adminFrame, assignments >>

\* committee names of a meetings list, [...new Set(meetings.map(m => m.committee))]
CommitteesOf(list) == Unique([i \in 1..Len(list) |-> list[i].committee])

\* the Add New Meeting button
addMeeting(t) ==
    /\ OnAdminPage(t)
    /\ LET newId == generateMeetingId(meetings[t])
           committees == CommitteesOf(meetings[t])
           committee == IF committees # <<>> /\ committees[1] # ""
                        THEN committees[1] ELSE NewCommittee
           list == Append(meetings[t], Meeting(newId, committee, "New Meeting", ""))
       IN  /\ meetings' = [meetings EXCEPT ![t] = list]
           /\ saveMeetingsOverride(list)
    /\ UNCHANGED << adminFrame, assignments >>

(***************************************************************************)
(* Admin dashboard: assignments.                                           *)
(***************************************************************************)
\* assignments[idx].committees = committees
WithCommittees(a, committees) == Assignment(a.pid, committees)

\* Variant: the committee is pushed without the includes test.
addAssignment_NoIncludes(t, pidInput, committeeInput) ==
    /\ OnAdminPage(t)
    /\ LET pid == Trim(pidInput)
           committee == committeeInput
           Same(a) == String(a.pid) = String(pid)
           idx == FindIndex(assignments[t], Same)
           list == IF idx > 0
                   THEN LET committees == CommitteesOrEmpty(assignments[t][idx])
                        IN  [assignments[t] EXCEPT
                               ![idx] = WithCommittees(@, Sort(Append(committees, committee)))]
                   ELSE Append(assignments[t], Assignment(pid, << committee >>))
       IN  /\ pid # <<>>
           /\ committee # ""
           /\ assignments' = [assignments EXCEPT ![t] = list]
           /\ saveAssignmentsOverride(list)
    /\ UNCHANGED << adminFrame, meetings >>

\* the Add Assignment button, with the two text inputs (a committee name is
\* an atom: committeeInput is the text of the input after trim())
addAssignment(t, pidInput, committeeInput) ==
    /\ OnAdminPage(t)
    /\ LET pid == Trim(pidInput)
           committee == committeeInput
           Same(a) == String(a.pid) = String(pid)
           idx == FindIndex(assignments[t], Same)
           list == IF idx > 0
                   THEN LET committees == CommitteesOrEmpty(assignments[t][idx])
                        IN  IF Includes(committees, committee)
                            THEN assignments[t]
                            ELSE [assignments[t] EXCEPT
                                    ![idx] = WithCommittees(@,
                                               Sort(Append(committees, committee)))]
                   ELSE Append(assignments[t], Assignment(pid, << committee >>))
       IN  /\ pid # <<>>
           /\ committee # ""
           /\ assignments' = [assignments EXCEPT ![t] = list]
           /\ saveAssignmentsOverride(list)
    /\ UNCHANGED << adminFrame, meetings >>

\* the Remove Assignment button, with the two text inputs
removeAssignment(t, pidInput, committeeInput) ==
    /\ OnAdminPage(t)
    /\ LET pid == Trim(pidInput)
           committee == committeeInput
           Same(a) == String(a.pid) = String(pid)
           idx == FindIndex(assignments[t], Same)
           Keep(c) == c # committee
           committees == SelectSeq(CommitteesOrEmpty(assignments[t][idx]), Keep)
           list == IF committees # <<>>
                   THEN [assignments[t] EXCEPT ![idx] = WithCommittees(@, committees)]
                   ELSE RemoveAt(assignments[t], idx)
       IN  /\ pid # <<>>
           /\ committee # ""
           /\ idx > 0
           /\ assignments' = [assignments EXCEPT ![t] = list]
           /\ saveAssignmentsOverride(list)
    /\ UNCHANGED << adminFrame, meetings >>

(***************************************************************************)
(* Admin dashboard: import of a submissions export.                        *)
(***************************************************************************)
\* importSubmissions(file, onRefresh): the read of the file is started
importSubmissions(t, text) ==
    /\ OnAdminPage(t)
    /\ \A r \in fileReads : r.tab # t
    /\ fileReads' = fileReads \cup {[tab |-> t, kind |-> "import", result |-> text]}
    /\ UNCHANGED << localStorage, now, staticVars, pageVars, lastAlert, lastWrite, vres >>

\* the test of the forEach body: s.pid && s.meetingName && s.timestamp
WellFormed(sub) ==
    TruthyString(sub.pid) /\ sub.meetingName # "" /\ TruthyTimestamp(sub.timestamp)

\* a === b on two string fields of two different parsed records: equal
\* primitives, or both undefined; two objects are never the same object
StrictEquals(a, b) == a = b /\ a # ObjectString

\* merged.some(m => m.pid === s.pid && m.meetingId === s.meetingId && ...)
Duplicate(merged, sub) ==
    \E i \in 1..Len(merged) :
        /\ StrictEquals(merged[i].pid, sub.pid)
        /\ StrictEquals(merged[i].meetingId, sub.meetingId)
        /\ merged[i].timestamp = sub.timestamp

\* the forEach loop of reader.onload
RECURSIVE MergeImported(_, _)
MergeImported(merged, imported) ==
    IF imported = <<>> THEN merged
    ELSE LET sub == Head(imported)
         IN  MergeImported(
                 IF WellFormed(sub) /\ ~Duplicate(merged, sub)
                 THEN Append(merged, sub) ELSE merged,
                 Tail(imported))

\* Variant: a failed import is swallowed without a message.
importOnload_SilentFailure(r) ==
    /\ r \in fileReads
    /\ r.kind = "import"
    /\ fileReads' = fileReads \ {r}
    /\ LET parsed == JSONparse(r.result)
           isList == ~parsed.threw /\ IsArrayText(r.result)
           throws == ~isList \/ Includes(parsed.value, null)
           merged == MergeImported(getSubmissions, parsed.value)
       IN  IF throws
           THEN UNCHANGED << lastAlert, localStorage >>
           ELSE /\ localStorage' =
                       setItem(localStorage, SUBMISSIONS, JSONstringifyArray(merged))
                /\ lastAlert' = ImportedAlert(Len(parsed.value), Len(merged))
    /\ UNCHANGED << now, staticVars, pageVars, lastWrite, vres >>

\* reader.onload of importSubmissions: parse, merge, store, alert
importOnload(r) ==
    /\ r \in fileReads
    /\ r.kind = "import"
    /\ fileReads' = fileReads \ {r}
    /\ LET parsed == JSONparse(r.result)
           isList == ~parsed.threw /\ IsArrayText(r.result)
           \* s.pid on a null entry throws a TypeError inside the try block
           throws == ~isList \/ Includes(parsed.value, null)
           merged == MergeImported(getSubmissions, parsed.value)
       IN  IF throws
           THEN /\ lastAlert' = InvalidFileAlert
                /\ UNCHANGED localStorage
           ELSE /\ localStorage' =
                       setItem(localStorage, SUBMISSIONS, JSONstringifyArray(merged))
                /\ lastAlert' = ImportedAlert(Len(parsed.value), Len(merged))
    /\ UNCHANGED << now, staticVars, pageVars, lastWrite, vres >>

(***************************************************************************)
(* Inputs.                                                                 *)
(***************************************************************************)
LoginPids == { <<"a">>, <<"s">>, <<" ", "s", " ">>, <<"t">>, <<"x">> }
LoginPasswords == { "admin123", "senator1", "senator2", "wrong" }
AppLoginPids == { <<"a">>, <<"s">> }
AppLoginPasswords == { "admin123", "senator1" }

\* entries of an import file
Cand1 == Submission(<<"s">>, AcademicAffairs, "AAC Meeting", <<"m", "1">>, 1, TRUE, "")
Cand1Other == Submission(<<"s">>, AcademicAffairs, "AAC Meeting", <<"m", "1">>, 1, FALSE, "late")
Cand2 == Submission(<<"t">>, StudentLife, "SLC Meeting", <<"m", "2">>, 2, TRUE, "")
CandNoName == Submission(<<"t">>, StudentLife, "", <<"m", "2">>, 1, TRUE, "")
CandNoId == Submission(<<"s">>, AcademicAffairs, "AAC Meeting", MissingString, 1, TRUE, "")
CandObject == Submission(ObjectString, StudentLife, "SLC Meeting", <<"m", "2">>, 2, TRUE, "")

\* the number of records an import of the pending file r would leave stored
SizeAfterImport(r) ==
    IF IsArrayText(r.result) /\ ~Includes(JSONparse(r.result).value, null)
    THEN Len(MergeImported(getSubmissions, JSONparse(r.result).value))
    ELSE Len(getSubmissions)

\* the number in the id the Add New Meeting button would assign
NextMeetingNumber(t) == ParseInt(OnlyDigits(generateMeetingId(meetings[t])))

\* Add New Meeting stays within a bound on the list and on the numbers used
CanAddMeeting(t, max) == Len(meetings[t]) < max /\ NextMeetingNumber(t) <= max

(***************************************************************************)
(* The application in one tab: every operation, with few inputs each.      *)
(***************************************************************************)
AppImportFiles == { JSONstringifyArray(<< Cand2 >>) }

Next ==
    \/ StaticChange
    \/ \E t \in AllTabs, page \in Pages : Navigate(t, page)
    \/ \E t \in AllTabs : PageLoad(t)
    \/ \E t \in AllTabs, pid \in AppLoginPids, password \in AppLoginPasswords :
          Login(t, pid, password)
    \/ \E t \in AllTabs : Logout(t)
    \/ \E t \in AllTabs :
          Len(getSubmissions) < AppMaxSubmissions /\ handleSubmission(t, 1, TRUE, "")
    \/ \E t \in AllTabs : noticeTimeout(t)
    \/ \E t \in AllTabs, i \in 1..AppMaxMeetings : editMeeting(t, i, "time", "2:00 PM")
    \/ \E t \in AllTabs, i \in 1..AppMaxMeetings : deleteMeeting(t, i)
    \/ \E t \in AllTabs : CanAddMeeting(t, AppMaxMeetings) /\ addMeeting(t)
    \/ \E t \in AllTabs : addAssignment(t, <<"s">>, StudentLife)
    \/ \E t \in AllTabs : removeAssignment(t, <<"s">>, AcademicAffairs)
    \/ \E t \in AllTabs, text \in AppImportFiles : importSubmissions(t, text)
    \/ \E r \in fileReads : SizeAfterImport(r) <= AppMaxSubmissions /\ importOnload(r)

Spec == Init /\ [][Next]_vars

(***************************************************************************)
(* Senators recording and the admin importing, with the clock running.     *)
(***************************************************************************)
ImportFiles ==
    { JSONstringifyArray(<< Cand1, Cand2 >>),
      JSONstringifyArray(<< Cand1Other, CandNoId >>),
      JSONstringifyArray(<< CandNoName, Cand2, Cand2 >>),
      JSONstringifyObject(Cand1) }

\* both senators have meetings to report on
InitSubmissions ==
    /\ InitBrowser
    /\ users = Directory
    /\ meetingsFile = MeetingsFileV1
    /\ assignmentsFile = AssignmentsFileV2
    /\ tabs = {"A"}

NextSubmissions ==
    \/ Tick
    \/ \E t \in AllTabs, page \in Pages : Navigate(t, page)
    \/ \E t \in AllTabs : PageLoad(t)
    \/ \E t \in AllTabs, pid \in LoginPids, password \in LoginPasswords :
          Login(t, pid, password)
    \/ \E t \in AllTabs : Logout(t)
    \/ \E t \in AllTabs, i \in 1..MaxMeetings, attendance \in BOOLEAN :
          Len(getSubmissions) < MaxSubmissions /\ handleSubmission(t, i, attendance, "")
    \/ \E t \in AllTabs : noticeTimeout(t)
    \/ \E t \in AllTabs, text \in ImportFiles : importSubmissions(t, text)
    \/ \E r \in fileReads : SizeAfterImport(r) <= MaxSubmissions /\ importOnload(r)

SpecSubmissions == InitSubmissions /\ [][NextSubmissions]_vars

(***************************************************************************)
(* The application with a store whose items can be damaged from outside    *)
(* (another script of the origin, a partial write, the developer tools).   *)
(***************************************************************************)
\* texts that are not valid JSON: the empty string, stray characters, an
\* array cut short, and the stored text with its last token lost
CorruptTexts(item) ==
    { <<>>, << Garbage >>, << LBracket, Garbage >> }
        \cup (IF Truthy(item) THEN { SubSeq(item.text, 1, Len(item.text) - 1) } ELSE {})

Corrupt(key, text) ==
    /\ JSONparse(text).threw
    /\ localStorage' = setItem(localStorage, key, text)
    /\ UNCHANGED << now, staticVars, pageVars, fileReads, lastAlert, lastWrite, vres >>

NextCorrupt ==
    \/ \E key \in GOV_STORAGE_KEYS :
          \E text \in CorruptTexts(getItem(localStorage, key)) : Corrupt(key, text)
    \/ \E t \in AllTabs, page \in Pages : Navigate(t, page)
    \/ \E t \in AllTabs : PageLoad(t)
    \/ \E t \in AllTabs, pid \in AppLoginPids, password \in AppLoginPasswords :
          Login(t, pid, password)
    \/ \E t \in AllTabs : Logout(t)
    \/ \E t \in AllTabs, i \in 1..AppMaxMeetings :
          Len(getSubmissions) < AppMaxSubmissions /\ handleSubmission(t, i, TRUE, "")
    \/ \E t \in AllTabs : noticeTimeout(t)
    \/ \E t \in AllTabs, i \in 1..AppMaxMeetings : editMeeting(t, i, "time", "2:00 PM")
    \/ \E t \in AllTabs : addAssignment(t, <<"s">>, StudentLife)

SpecCorrupt == Init /\ [][NextCorrupt]_vars

(***************************************************************************)
(* validateUser on its own: every small directory, every typed pid.        *)
(***************************************************************************)
PidChars == { " ", "a" }
PidStrings == SeqsUpTo(PidChars, MaxPidLen)
Passwords == { "senator1", "senator2" }
\* a directory entry names a user: its pid is not blank, but may carry blanks
DirectoryPids == { p \in PidStrings : Trim(p) # <<>> }
DirectoryEntries == [pid : DirectoryPids, password : Passwords, role : {"senator"}]

InitValidate ==
    /\ InitBrowser
    /\ users \in SeqsUpTo(DirectoryEntries, MaxUsers)
    /\ meetingsFile = MeetingsFileV1
    /\ assignmentsFile = AssignmentsFileV1
    /\ tabs = {"A"}

\* the login form calls validateUser with what was typed
Validate(pid, password) ==
    /\ vres' = [called |-> TRUE, pid |-> pid, password |-> password,
                ret |-> validateUser(pid, password, users)]
    /\ UNCHANGED << localStorage, now, staticVars, pageVars, fileReads, lastAlert,
                    lastWrite >>

NextValidate == \E pid \in PidStrings : Validate(pid, "senator1")

SpecValidate == InitValidate /\ [][NextValidate]_vars

(***************************************************************************)
(* A senator submitting with and without attachments.                      *)
(***************************************************************************)
AttachmentFiles ==
    { File("notes.pdf", size) :
        size \in { 0, MAX_ATTACHMENT_BYTES - 1, MAX_ATTACHMENT_BYTES,
                   MAX_ATTACHMENT_BYTES + 1 } }

\* the reads of attachments that have not completed
AttachmentReads == { r \in fileReads : r.kind = "attachment" }

NextAttach ==
    \/ \E t \in AllTabs : Navigate(t, DashboardPage)
    \/ \E t \in AllTabs : PageLoad(t)
    \/ \E t \in AllTabs : Login(t, <<"s">>, "senator1")
    \/ \E t \in AllTabs, i \in 1..MaxMeetings, file \in AttachmentFiles \cup {NoFile} :
          /\ Len(getSubmissions) + Cardinality(AttachmentReads) < MaxSubmissions
          /\ handleSubmissionFile(t, i, TRUE, "", file)
    \/ \E r \in fileReads : attachmentOnload(r)
    \/ \E t \in AllTabs : noticeTimeout(t)

SpecAttach == InitSubmissions /\ [][NextAttach]_vars

(***************************************************************************)
(* One tab, every operation that writes, file reads completing in any      *)
(* order.                                                                  *)
(***************************************************************************)
OneTabFiles ==
    { NoFile, File("agenda.pdf", 0), File("notes.pdf", MAX_ATTACHMENT_BYTES) }

\* the file has not been submitted yet (each is submitted once)
Unsubmitted(file) ==
    /\ \A r \in AttachmentReads : r.file # file
    /\ \A j \in 1..Len(getSubmissions) :
          IF HasAttachment(getSubmissions[j])
          THEN file.chosen => getSubmissions[j].attachmentName # file.name
          ELSE file.chosen

NextOneTab ==
    \/ \E t \in AllTabs : PageLoad(t)
    \/ \E t \in AllTabs, pid \in AppLoginPids, password \in AppLoginPasswords :
          Login(t, pid, password)
    \/ \E t \in AllTabs : Logout(t)
    \/ \E t \in AllTabs, file \in OneTabFiles :
          /\ Unsubmitted(file)
          /\ handleSubmissionFile(t, 1, TRUE, "", file)
    \/ \E r \in fileReads : attachmentOnload(r)
    \/ \E t \in AllTabs : editMeeting(t, 1, "time", "2:00 PM")
    \/ \E t \in AllTabs : deleteMeeting(t, 1)
    \/ \E t \in AllTabs : CanAddMeeting(t, Len(meetingsFile)) /\ addMeeting(t)
    \/ \E t \in AllTabs : addAssignment(t, <<"s">>, StudentLife)
    \/ \E t \in AllTabs : removeAssignment(t, <<"s">>, AcademicAffairs)
    \/ \E t \in AllTabs, text \in AppImportFiles : importSubmissions(t, text)
    \/ \E r \in fileReads : r.kind = "import" /\ importOnload(r)

SpecOneTab == Init /\ [][NextOneTab]_vars

(***************************************************************************)
(* Two tabs of one browser, both used by the admin.                        *)
(***************************************************************************)
InitTwoTabs ==
    /\ InitBrowser
    /\ users = Directory
    /\ meetingsFile = MeetingsFileV1
    /\ assignmentsFile = AssignmentsFileV1
    /\ tabs = AllTabs

NextTwoTabs ==
    \/ \E t \in AllTabs : Navigate(t, AdminPage)
    \/ \E t \in AllTabs : PageLoad(t)
    \/ \E t \in AllTabs : Login(t, <<"a">>, "admin123")
    \/ \E t \in AllTabs : editMeeting(t, 1, "time", "2:00 PM")
    \/ \E t \in AllTabs : deleteMeeting(t, 1)
    \/ \E t \in AllTabs : CanAddMeeting(t, Len(meetingsFile) + 1) /\ addMeeting(t)
    \/ \E t \in AllTabs : addAssignment(t, <<"s">>, StudentLife)
    \/ \E t \in AllTabs : removeAssignment(t, <<"s">>, AcademicAffairs)

SpecTwoTabs == InitTwoTabs /\ [][NextTwoTabs]_vars

(***************************************************************************)
(* Add New Meeting over every small meetings.json whose ids are m<integer>.*)
(***************************************************************************)
IdDigits == { "0", "1", "9" }
PatternIds ==
    { << "m" >> \o ds : ds \in SeqsUpTo(IdDigits, MaxIdDigits) \ { <<>> } }
        \cup { << "m", "3" >> }
PatternMeetings ==
    { Meeting(id, AcademicAffairs, "AAC Meeting", "TBD") : id \in PatternIds }

InitMeetingId ==
    /\ now = 1
    /\ localStorage =
          [k \in GOV_STORAGE_KEYS |->
             IF k = SESSION THEN Item(JSONstringifyObject(SessionRecord(Directory[1])))
             ELSE Absent]
    /\ meetingsFile \in SeqsUpTo(PatternMeetings, MaxIdList)
    /\ location = [t \in AllTabs |-> IF t = "A" THEN AdminPage ELSE IndexPage]
    /\ loaded = [t \in AllTabs |-> t = "A"]
    /\ session = [t \in AllTabs |-> IF t = "A" THEN SessionRecord(Directory[1]) ELSE null]
    /\ meetings = [t \in AllTabs |-> IF t = "A" THEN meetingsFile ELSE <<>>]
    /\ assignments = [t \in AllTabs |-> IF t = "A" THEN AssignmentsFileV1 ELSE <<>>]
    /\ fileReads = {}
    /\ lastAlert = NoAlert
    /\ lastWrite = [k \in {MEETINGS_OVERRIDE, ASSIGNMENTS_OVERRIDE} |-> NeverWritten]
    /\ vres = NoCall
    /\ notice = [t \in AllTabs |-> NoNotice]
    /\ users = Directory
    /\ assignmentsFile = AssignmentsFileV1
    /\ tabs = {"A"}

NextMeetingId == \E t \in AllTabs : Len(meetings[t]) <= MaxIdList /\ addMeeting(t)

SpecMeetingId == InitMeetingId /\ [][NextMeetingId]_vars

(***************************************************************************)
(* The senator dashboard over every small assignments.json.                *)
(***************************************************************************)
SenatorPids == { << "7" >>, NumberValue(<< "7" >>), << "s" >> }
CommitteeLists ==
    { <<>>, << AcademicAffairs >>, << StudentLife, AcademicAffairs >> }
AssignmentEntries ==
    { Assignment(pid, committees) : pid \in SenatorPids, committees \in CommitteeLists }
        \cup { [pid |-> pid] : pid \in SenatorPids }
MeetingsFileV3 ==
    << Meeting(<<"m", "1">>, AcademicAffairs, "AAC Meeting", "10:30 AM"),
       Meeting(<<"m", "2">>, StudentLife, "SLC Meeting", "TBD"),
       Meeting(<<"m", "3">>, AcademicAffairs, "AAC Meeting", "TBD") >>
Senator(pid) == [pid |-> pid, password |-> "senator1", role |-> "senator"]

InitCommittees ==
    /\ now = 1
    /\ \E pid \in SenatorPids :
          /\ users = << Senator(pid) >>
          /\ localStorage =
                [k \in GOV_STORAGE_KEYS |->
                   IF k = SESSION
                   THEN Item(JSONstringifyObject(SessionRecord(Senator(pid))))
                   ELSE Absent]
    /\ meetingsFile \in { MeetingsFileV1, MeetingsFileV3 }
    /\ assignmentsFile \in SeqsUpTo(AssignmentEntries, MaxAssignments)
    /\ location = [t \in AllTabs |-> IF t = "A" THEN DashboardPage ELSE IndexPage]
    /\ loaded = [t \in AllTabs |-> FALSE]
    /\ session = [t \in AllTabs |-> null]
    /\ meetings = [t \in AllTabs |-> <<>>]
    /\ assignments = [t \in AllTabs |-> <<>>]
    /\ fileReads = {}
    /\ lastAlert = NoAlert
    /\ lastWrite = [k \in {MEETINGS_OVERRIDE, ASSIGNMENTS_OVERRIDE} |-> NeverWritten]
    /\ vres = NoCall
    /\ notice = [t \in AllTabs |-> NoNotice]
    /\ tabs = {"A"}

NextCommittees == \E t \in AllTabs : PageLoad(t)

SpecCommittees == InitCommittees /\ [][NextCommittees]_vars

(***************************************************************************)
(* Add Assignment and Remove Assignment over every small well-formed       *)
(* assignments.json.                                                       *)
(***************************************************************************)
\* one record per pid, no committee twice in a record
WellFormedAssignments(list) ==
    /\ \A i, j \in 1..Len(list) : String(list[i].pid) = String(list[j].pid) => i = j
    /\ \A i \in 1..Len(list) :
          LET committees == CommitteesOrEmpty(list[i])
          IN  \A c, d \in 1..Len(committees) : committees[c] = committees[d] => c = d

AssignPidInputs == { << " ", "7" >>, << "s" >>, << "x" >> }
AssignCommitteeInputs == { AcademicAffairs, StudentLife }

InitAssign ==
    /\ now = 1
    /\ localStorage =
          [k \in GOV_STORAGE_KEYS |->
             IF k = SESSION THEN Item(JSONstringifyObject(SessionRecord(Directory[1])))
             ELSE Absent]
    /\ assignmentsFile \in
          { list \in SeqsUpTo(AssignmentEntries, MaxAssignments) :
              WellFormedAssignments(list) }
    /\ location = [t \in AllTabs |-> IF t = "A" THEN AdminPage ELSE IndexPage]
    /\ loaded = [t \in AllTabs |-> t = "A"]
    /\ session = [t \in AllTabs |-> IF t = "A" THEN SessionRecord(Directory[1]) ELSE null]
    /\ meetings = [t \in AllTabs |-> IF t = "A" THEN MeetingsFileV1 ELSE <<>>]
    /\ assignments = [t \in AllTabs |-> IF t = "A" THEN assignmentsFile ELSE <<>>]
    /\ fileReads = {}
    /\ lastAlert = NoAlert
    /\ lastWrite = [k \in {MEETINGS_OVERRIDE, ASSIGNMENTS_OVERRIDE} |-> NeverWritten]
    /\ vres = NoCall
    /\ notice = [t \in AllTabs |-> NoNotice]
    /\ users = Directory
    /\ meetingsFile = MeetingsFileV1
    /\ tabs = {"A"}

NextAssign ==
    \/ \E t \in AllTabs, pid \in AssignPidInputs, committee \in AssignCommitteeInputs :
          addAssignment(t, pid, committee)
    \/ \E t \in AllTabs, pid \in AssignPidInputs, committee \in AssignCommitteeInputs :
          removeAssignment(t, pid, committee)

SpecAssign == InitAssign /\ [][NextAssign]_vars

(***************************************************************************)
(* The calendar over meetings of every set of committees, in three orders. *)
(***************************************************************************)
\* the calendar of a page is drawn: the colour map of its meetings
renderMeetingsCalendar(t) ==
    /\ t \in tabs
    /\ loaded[t]
    /\ location[t] # IndexPage
    /\ vres' = [called |-> TRUE, meetings |-> meetings[t],
                ret |-> buildCommitteeColorMap(meetings[t])]
    /\ UNCHANGED << localStorage, now, staticVars, pageVars, fileReads, lastAlert,
                    lastWrite >>

\* the names of a set, in sorted order
Ascending(S) ==
    [i \in 1..Cardinality(S) |->
        CHOOSE c \in S : Cardinality({ d \in S : Rank(d) <= Rank(c) }) = i]
Reverse(s) == [i \in 1..Len(s) |-> s[Len(s) + 1 - i]]

\* three orders of the same committees: sorted, reversed, and sorted after
\* reversed with a meeting that names no committee in between
Arrangements(S) ==
    { Ascending(S), Reverse(Ascending(S)),
      Reverse(Ascending(S)) \o << "" >> \o Ascending(S) }

MeetingsOf(committees) ==
    [i \in 1..Len(committees) |->
        Meeting(<< "m" >> \o ToDigits(i), committees[i], "Meeting", "TBD")]

InitCalendar ==
    /\ now = 1
    /\ localStorage =
          [k \in GOV_STORAGE_KEYS |->
             IF k = SESSION THEN Item(JSONstringifyObject(SessionRecord(Directory[1])))
             ELSE Absent]
    /\ \E S \in SUBSET SeqToSet(CommitteeNames) :
          \E committees \in Arrangements(S) : meetingsFile = MeetingsOf(committees)
    /\ location = [t \in AllTabs |-> IF t = "A" THEN AdminPage ELSE IndexPage]
    /\ loaded = [t \in AllTabs |-> t = "A"]
    /\ session = [t \in AllTabs |-> IF t = "A" THEN SessionRecord(Directory[1]) ELSE null]
    /\ meetings = [t \in AllTabs |-> IF t = "A" THEN meetingsFile ELSE <<>>]
    /\ assignments = [t \in AllTabs |-> IF t = "A" THEN AssignmentsFileV1 ELSE <<>>]
    /\ fileReads = {}
    /\ lastAlert = NoAlert
    /\ lastWrite = [k \in {MEETINGS_OVERRIDE, ASSIGNMENTS_OVERRIDE} |-> NeverWritten]
    /\ vres = NoCall
    /\ notice = [t \in AllTabs |-> NoNotice]
    /\ users = Directory
    /\ assignmentsFile = AssignmentsFileV1
    /\ tabs = {"A"}

NextCalendar == \E t \in AllTabs : renderMeetingsCalendar(t)

SpecCalendar == InitCalendar /\ [][NextCalendar]_vars

(***************************************************************************)
(* The admin's meeting actions, with a submission stored for each of the   *)
(* first two meetings of meetings.json.                                    *)
(***************************************************************************)
InitMeetingList ==
    /\ now = 1
    /\ localStorage =
          [k \in GOV_STORAGE_KEYS |->
             IF k = SESSION THEN Item(JSONstringifyObject(SessionRecord(Directory[1])))
             ELSE IF k = SUBMISSIONS THEN Item(JSONstringifyArray(<< Cand1, Cand2 >>))
             ELSE Absent]
    /\ meetingsFile \in { MeetingsFileV1, MeetingsFileV3 }
    /\ location = [t \in AllTabs |-> IF t = "A" THEN AdminPage ELSE IndexPage]
    /\ loaded = [t \in AllTabs |-> t = "A"]
    /\ session = [t \in AllTabs |-> IF t = "A" THEN SessionRecord(Directory[1]) ELSE null]
    /\ meetings = [t \in AllTabs |-> IF t = "A" THEN meetingsFile ELSE <<>>]
    /\ assignments = [t \in AllTabs |-> IF t = "A" THEN AssignmentsFileV1 ELSE <<>>]
    /\ fileReads = {}
    /\ lastAlert = NoAlert
    /\ lastWrite = [k \in {MEETINGS_OVERRIDE, ASSIGNMENTS_OVERRIDE} |-> NeverWritten]
    /\ vres = NoCall
    /\ notice = [t \in AllTabs |-> NoNotice]
    /\ users = Directory
    /\ assignmentsFile = AssignmentsFileV1
    /\ tabs = {"A"}

NextMeetingList ==
    \/ \E t \in AllTabs : Navigate(t, AdminPage)
    \/ \E t \in AllTabs : PageLoad(t)
    \/ \E t \in AllTabs, i \in 1..MaxMeetings : editMeeting(t, i, "time", "2:00 PM")
    \/ \E t \in AllTabs, i \in 1..MaxMeetings : deleteMeeting(t, i)
    \/ \E t \in AllTabs : CanAddMeeting(t, MaxMeetings) /\ addMeeting(t)

SpecMeetingList == InitMeetingList /\ [][NextMeetingList]_vars

(***************************************************************************)
(* importSubmissions on its own: the admin page is open over a stored      *)
(* collection, and files of every small content are imported.              *)
(***************************************************************************)
\* what an earlier use of the application may have left in the collection
StoredRecords == { Cand1, Cand2, CandObject }

\* the entries of an import file: any JSON value
ImportEntries == { Cand1, Cand1Other, CandNoId, CandNoName, CandObject, null }

\* the files: arrays of entries, a single object, and text that is not JSON
ImportPayloads ==
    { JSONstringifyArray(list) : list \in SeqsUpTo(ImportEntries, MaxCandidates) }
        \cup { JSONstringifyObject(Cand1), << Garbage >>, << LBracket, ObjectToken(Cand1) >> }

InitImport ==
    /\ now = 1
    /\ \E existing \in SeqsUpTo(StoredRecords, MaxExisting) :
          localStorage =
             [k \in GOV_STORAGE_KEYS |->
                IF k = SESSION THEN Item(JSONstringifyObject(SessionRecord(Directory[1])))
                ELSE IF k = SUBMISSIONS /\ existing # <<>>
                THEN Item(JSONstringifyArray(existing))
                ELSE Absent]
    /\ location = [t \in AllTabs |-> IF t = "A" THEN AdminPage ELSE IndexPage]
    /\ loaded = [t \in AllTabs |-> t = "A"]
    /\ session = [t \in AllTabs |-> IF t = "A" THEN SessionRecord(Directory[1]) ELSE null]
    /\ meetings = [t \in AllTabs |-> IF t = "A" THEN MeetingsFileV1 ELSE <<>>]
    /\ assignments = [t \in AllTabs |-> IF t = "A" THEN AssignmentsFileV1 ELSE <<>>]
    /\ fileReads = {}
    /\ lastAlert = NoAlert
    /\ lastWrite = [k \in {MEETINGS_OVERRIDE, ASSIGNMENTS_OVERRIDE} |-> NeverWritten]
    /\ vres = NoCall
    /\ notice = [t \in AllTabs |-> NoNotice]
    /\ users = Directory
    /\ meetingsFile = MeetingsFileV1
    /\ assignmentsFile = AssignmentsFileV1
    /\ tabs = {"A"}

NextImport ==
    \/ \E t \in AllTabs, text \in ImportPayloads : importSubmissions(t, text)
    \/ \E r \in fileReads : SizeAfterImport(r) <= MaxStored /\ importOnload(r)

SpecImport == InitImport /\ [][NextImport]_vars

(***************************************************************************)
(* Steps of the application, by the record they are meant to write.        *)
(***************************************************************************)
SessionStep ==
    \/ \E t \in AllTabs, pid \in LoginPids, password \in LoginPasswords :
          Login(t, pid, password)
    \/ \E t \in AllTabs : Logout(t)

SubmissionsStep ==
    \/ \E t \in AllTabs, i \in 1..MaxMeetings, attendance \in BOOLEAN :
          handleSubmission(t, i, attendance, "")
    \/ \E r \in fileReads : importOnload(r)

MeetingsStep ==
    \/ \E t \in AllTabs, i \in 1..MaxMeetings : editMeeting(t, i, "time", "2:00 PM")
    \/ \E t \in AllTabs, i \in 1..MaxMeetings : deleteMeeting(t, i)
    \/ \E t \in AllTabs : addMeeting(t)

AssignmentsStep ==
    \/ \E t \in AllTabs : addAssignment(t, <<"s">>, StudentLife)
    \/ \E t \in AllTabs : removeAssignment(t, <<"s">>, AcademicAffairs)

\* the records whose stored item differs between the two states of a step
ChangedKeys == { k \in GOV_STORAGE_KEYS : localStorage'[k] # localStorage[k] }

MeetingFallbacks == { <<>>, MeetingsFileV1, MeetingsFileV2 }
AssignmentFallbacks == { <<>>, AssignmentsFileV1, AssignmentsFileV2 }

(***************************************************************************)
(* Claims.                                                                 *)
(***************************************************************************)
\* C1: for meetings and for assignments, a read returns the value of the most
\* recent write whatever the fallback is (also when the written list is
\* empty), and the fallback unchanged when no write has ever occurred.
C1_OverridePrecedence ==
    /\ \A f \in MeetingFallbacks :
          getMeetingsWithOverride(f) =
              IF lastWrite[MEETINGS_OVERRIDE].written
              THEN lastWrite[MEETINGS_OVERRIDE].value ELSE f
    /\ \A f \in AssignmentFallbacks :
          getAssignmentsWithOverride(f) =
              IF lastWrite[ASSIGNMENTS_OVERRIDE].written
              THEN lastWrite[ASSIGNMENTS_OVERRIDE].value ELSE f

\* C1 witness: the empty list has been written for both types and is read
\* back against a non-empty fallback.
C1_Witness ==
    /\ lastWrite[MEETINGS_OVERRIDE] = Written(<<>>)
    /\ lastWrite[ASSIGNMENTS_OVERRIDE] = Written(<<>>)
    /\ getMeetingsWithOverride(MeetingsFileV1) = <<>>
    /\ getAssignmentsWithOverride(AssignmentsFileV1) = <<>>

\* C2: once an override has been written, no step of the application removes
\* it or changes it other than by a write of that type, and every page loaded
\* later reads the override content and not the static file.
C2_OverrideSticks ==
    [][ /\ \A k \in {MEETINGS_OVERRIDE, ASSIGNMENTS_OVERRIDE} :
             lastWrite[k].written =>
                /\ lastWrite'[k].written
                /\ Truthy(getItem(localStorage', k))
                /\ lastWrite'[k] = lastWrite[k] =>
                      getItem(localStorage', k) = getItem(localStorage, k)
        /\ \A t \in AllTabs :
             (PageLoad(t) /\ location[t] = AdminPage /\ loaded'[t]) =>
                /\ lastWrite[MEETINGS_OVERRIDE].written =>
                      meetings'[t] = lastWrite[MEETINGS_OVERRIDE].value
                /\ lastWrite[ASSIGNMENTS_OVERRIDE].written =>
                      assignments'[t] = lastWrite[ASSIGNMENTS_OVERRIDE].value
      ]_vars

\* C2 witness: after both overrides were written, a submission was recorded,
\* the static files were redeployed and the admin page was loaded again; it
\* shows the overrides, which differ from the static files.
C2_Witness ==
    /\ lastWrite[MEETINGS_OVERRIDE].written
    /\ lastWrite[ASSIGNMENTS_OVERRIDE].written
    /\ getSubmissions # <<>>
    /\ meetingsFile = MeetingsFileV2
    /\ location["A"] = AdminPage /\ loaded["A"]
    /\ meetings["A"] = lastWrite[MEETINGS_OVERRIDE].value
    /\ meetings["A"] # meetingsFile
    /\ assignments["A"] = lastWrite[ASSIGNMENTS_OVERRIDE].value
    /\ assignments["A"] # assignmentsFile

\* C5: a login leaves a session with the pid and role of the validated user,
\* replacing any earlier one; a logout leaves no session; the stored session
\* changes in no other step.
C5_SessionMachine ==
    [][ /\ \A t \in AllTabs, pid \in AppLoginPids, password \in AppLoginPasswords :
             Login(t, pid, password) =>
                /\ getSession' # null
                /\ getSession'.pid = validateUser(pid, password, users).pid
                /\ getSession'.role = validateUser(pid, password, users).role
        /\ \A t \in AllTabs : Logout(t) => getSession' = null
        /\ localStorage'[SESSION] # localStorage[SESSION] => SessionStep
      ]_vars

\* C5 witness: the admin is logged in and the admin page holds that session.
C5_Witness ==
    /\ getSession # null
    /\ getSession.pid = <<"a">> /\ getSession.role = "admin"
    /\ loaded["A"] /\ session["A"] = getSession

\* C6: requireAuth returns the session exactly when one exists and the
\* expected role is absent or equal to the session's role; without a session
\* it returns null and redirects to the login page; on a role mismatch it
\* returns null and redirects to the dashboard of the session's own role.
C6_RequireAuth ==
    \A expected \in {NoRole, "senator", "admin"} :
        LET s == getSession
            r == requireAuth(expected)
        IN  /\ (r.ret # null) <=> (s # null /\ (expected = NoRole \/ s.role = expected))
            /\ r.ret # null => (r.ret = s /\ r.href = NoRedirect)
            /\ s = null => (r.ret = null /\ r.href = IndexPage)
            /\ (s # null /\ expected # NoRole /\ s.role # expected) =>
                  /\ r.ret = null
                  /\ r.href = IF s.role = "admin" THEN AdminPage ELSE DashboardPage

\* C6 witness: a senator who asked for the admin page has been sent to the
\* senator dashboard, which has loaded.
C6_Witness ==
    /\ getSession # null /\ getSession.role = "senator"
    /\ requireAuth("admin").ret = null
    /\ requireAuth("admin").href = DashboardPage
    /\ location["A"] = DashboardPage /\ loaded["A"]

\* C7: every operation changes at most the one record it is meant to write:
\* a step that changes a record changes no other, is not an operation of one
\* of the other three records, and is a login or a logout when the record is
\* the session.
C7_IndependentRecords ==
    [][ \A k \in ChangedKeys :
          /\ ChangedKeys = {k}
          /\ k # SESSION => ~SessionStep
          /\ k # SUBMISSIONS => ~SubmissionsStep
          /\ k # MEETINGS_OVERRIDE => ~MeetingsStep
          /\ k # ASSIGNMENTS_OVERRIDE => ~AssignmentsStep
          /\ k = SESSION => SessionStep
      ]_vars

\* C7 witness: the admin's session is still there after a submission was
\* stored, submissions were imported and both overrides were written.
C7_Witness ==
    /\ getSession # null /\ getSession.role = "admin"
    /\ Len(getSubmissions) = AppMaxSubmissions
    /\ lastAlert.kind = "imported"
    /\ lastWrite[MEETINGS_OVERRIDE].written
    /\ lastWrite[ASSIGNMENTS_OVERRIDE].written

\* the triple a submit of meeting card i in tab t is to leave in the log: the
\* senator of the page, the meeting of the card, the time of the submit
SubmittedTriple(t, i) == << session[t].pid, meetings[t][i].id, now >>

\* C8: the submissions collection before any step is a prefix of the
\* collection after it: records are appended, never edited, reordered or
\* removed, by record and by import alike.
C8_AppendOnly == [][ IsPrefix(getSubmissions, getSubmissions') ]_vars

\* C8 witness: the log holds a record made by a submit (senator s at time 2)
\* before a record that only the import brings (senator t at time 2, imported
\* from Cand2) or after it.
C8_Witness ==
    /\ lastAlert.kind = "imported"
    /\ \E i, j \in 1..Len(getSubmissions) :
          /\ i # j
          /\ getSubmissions[i].pid = <<"s">> /\ getSubmissions[i].timestamp = 2
          /\ getSubmissions[j] = Cand2

\* C9: a record step appends the given submission as the last element of the
\* stored collection, which grows by exactly one, also when a record with the
\* same (pid, meetingId, timestamp) is already stored.
C9_RecordAppends ==
    [][ \A t \in AllTabs, i \in 1..MaxMeetings, attendance \in BOOLEAN :
           handleSubmission(t, i, attendance, "") =>
              /\ Len(getSubmissions') = Len(getSubmissions) + 1
              /\ SubSeq(getSubmissions', 1, Len(getSubmissions)) = getSubmissions
              /\ Triple(getSubmissions'[Len(getSubmissions')]) = SubmittedTriple(t, i)
              /\ getSubmissions'[Len(getSubmissions')].attendanceConfirmed = attendance
      ]_vars

\* C9 witness: two stored records carry the same triple.
C9_Witness ==
    \E i, j \in 1..Len(getSubmissions) :
        i < j /\ Triple(getSubmissions[i]) = Triple(getSubmissions[j])

\* C10 as stated: after a submit the new record's triple is in the collection
\* exactly once.
C10_ExactlyOnce ==
    [][ \A t \in AllTabs, i \in 1..MaxMeetings, attendance \in BOOLEAN :
           handleSubmission(t, i, attendance, "") =>
              CountTriple(getSubmissions', SubmittedTriple(t, i)) = 1
      ]_vars

\* C10 amended: after a submit the new record's triple is in the collection
\* exactly once more than before the submit, so exactly once when no stored
\* record carried that triple.
C10_OnceMore ==
    [][ \A t \in AllTabs, i \in 1..MaxMeetings, attendance \in BOOLEAN :
           handleSubmission(t, i, attendance, "") =>
              CountTriple(getSubmissions', SubmittedTriple(t, i))
                 = CountTriple(getSubmissions, SubmittedTriple(t, i)) + 1
      ]_vars

\* C10 witness: senator s has submitted for m1 at time 2 and that triple is
\* stored exactly once, next to another record.
C10_Witness ==
    /\ CountTriple(getSubmissions, << <<"s">>, <<"m", "1">>, 2 >>) = 1
    /\ Len(getSubmissions) > 1

\* C3: when the stored text of an override, of the submissions or of the
\* session is not valid JSON, the read does not fail: the override reads
\* return the fallback they were given, getSubmissions returns the empty list
\* and getSession returns no session.
C3_LenientReads ==
    /\ JSONparse(getItem(localStorage, MEETINGS_OVERRIDE).text).threw =>
          \A f \in MeetingFallbacks : getMeetingsWithOverride(f) = f
    /\ JSONparse(getItem(localStorage, ASSIGNMENTS_OVERRIDE).text).threw =>
          \A f \in AssignmentFallbacks : getAssignmentsWithOverride(f) = f
    /\ JSONparse(getItem(localStorage, SUBMISSIONS).text).threw => getSubmissions = <<>>
    /\ JSONparse(getItem(localStorage, SESSION).text).threw => getSession = null

\* C3 witness: all four items are stored and none of them is valid JSON, the
\* overrides after they had been written by the admin.
C3_Witness ==
    /\ \A key \in GOV_STORAGE_KEYS :
          /\ Truthy(getItem(localStorage, key))
          /\ JSONparse(getItem(localStorage, key).text).threw
    /\ lastWrite[MEETINGS_OVERRIDE].written
    /\ lastWrite[ASSIGNMENTS_OVERRIDE].written

\* the directory entries that match a typed pid and password
Matches(pid, password, directory) ==
    { i \in 1..Len(directory) :
        Trim(directory[i].pid) = Trim(pid) /\ directory[i].password = password }

\* C4: validateUser returns a directory entry whose trimmed pid equals the
\* trimmed typed pid and whose password equals the typed password if such an
\* entry exists, and null otherwise, whether the pid is unknown or the
\* password wrong.
C4_ValidateUser ==
    vres.called =>
        LET matches == Matches(vres.pid, vres.password, users)
        IN  /\ (vres.ret = null) <=> (matches = {})
            /\ matches # {} => \E i \in matches : vres.ret = users[i]

\* C4 witness: a pid typed with blanks around it matched an entry, in a
\* directory that also holds an entry with that pid and another password.
C4_Witness ==
    /\ vres.called
    /\ vres.pid # Trim(vres.pid)
    /\ Trim(vres.pid) # <<>>
    /\ vres.ret # null
    /\ \E i \in 1..Len(users) :
          Trim(users[i].pid) = Trim(vres.pid) /\ users[i].password # vres.password

\* the list an import file holds, when the file is a JSON array
ImportedList(r) == JSONparse(r.result).value
IsListFile(r) == ~JSONparse(r.result).threw /\ IsArrayText(r.result)

\* C11: importing a list twice in a row leaves the same collection as
\* importing it once: an import of the file just imported changes nothing.
C11_ImportIdempotent ==
    [][ \A r \in fileReads :
          (importOnload(r) /\ IsListFile(r) /\ ~Includes(ImportedList(r), null)) =>
              MergeImported(getSubmissions', ImportedList(r)) = getSubmissions'
      ]_vars

\* a well-formed candidate: an object with a pid, a meeting name and a
\* timestamp, whose pid and meeting id are not themselves objects
Proper(sub) ==
    /\ sub # null
    /\ TruthyString(sub.pid) /\ sub.pid # ObjectString
    /\ sub.meetingId # ObjectString
    /\ sub.meetingName # ""
    /\ TruthyTimestamp(sub.timestamp)

\* the positions of the well-formed candidates of a list
ProperAt(list) == { j \in 1..Len(list) : Proper(list[j]) }

\* the first well-formed candidate of a list that carries a triple
FirstWith(list, triple) ==
    list[CHOOSE j \in ProperAt(list) :
            /\ Triple(list[j]) = triple
            /\ \A k \in ProperAt(list) : k < j => Triple(list[k]) # triple]

\* C12: an import appends a well-formed candidate exactly when no record
\* stored before or appended earlier in the import carries its pid, meeting id
\* and timestamp: afterwards the triple is stored as often as before if it was
\* stored, and once otherwise, as the first candidate that carried it.
C12_ImportDedup ==
    [][ \A r \in fileReads :
          (importOnload(r) /\ IsListFile(r)) =>
              \A j \in ProperAt(ImportedList(r)) :
                  LET triple == Triple(ImportedList(r)[j])
                      before == CountTriple(getSubmissions, triple)
                  IN  IF before > 0
                      THEN CountTriple(getSubmissions', triple) = before
                      ELSE /\ CountTriple(getSubmissions', triple) = 1
                           /\ \E i \in (Len(getSubmissions) + 1)..Len(getSubmissions') :
                                 getSubmissions'[i] = FirstWith(ImportedList(r), triple)
      ]_vars

\* C13: a malformed entry of the list is skipped and does not stop the
\* import: the stored collection is the one the import of the list without
\* its malformed entries leaves.
C13_SkipsMalformed ==
    [][ \A r \in fileReads :
          (importOnload(r) /\ IsListFile(r)) =>
              getSubmissions' =
                 MergeImported(getSubmissions, SelectSeq(ImportedList(r), Proper))
      ]_vars

\* C14: a file that is not a JSON array, or not JSON at all, ends in the
\* alert and leaves every stored item as it was.
C14_NotAList ==
    [][ \A r \in fileReads :
          (importOnload(r) /\ ~IsListFile(r)) =>
              /\ lastAlert' = InvalidFileAlert
              /\ localStorage' = localStorage
      ]_vars

\* C14 witness: the invalid-file alert is up over a stored collection that an
\* earlier import had extended.
C14_Witness ==
    /\ lastAlert = InvalidFileAlert
    /\ fileReads = {}
    /\ Len(getSubmissions) = MaxStored

\* C15: a submit with a file of more than 2,097,152 bytes stores nothing,
\* starts no read and shows the notice; a submit with a file of at most
\* 2,097,152 bytes starts the read of the file, and when the read completes
\* the submission is appended with the file's name and data; no stored
\* attachment is larger than 2,097,152 bytes.
C15_AttachmentLimit ==
    [][ /\ \A t \in AllTabs, i \in 1..MaxMeetings, file \in AttachmentFiles :
             handleSubmissionFile(t, i, TRUE, "", file) =>
                 /\ localStorage' = localStorage
                 /\ IF file.size <= 2097152
                    THEN \E r \in fileReads' :
                            /\ r.file = file
                            /\ r.submission.meetingId = meetings[t][i].id
                            /\ fileReads' = fileReads \cup {r}
                    ELSE fileReads' = fileReads /\ notice'[t] = TooLargeNotice
        /\ \A r \in fileReads :
             attachmentOnload(r) =>
                 /\ Len(getSubmissions') = Len(getSubmissions) + 1
                 /\ SubSeq(getSubmissions', 1, Len(getSubmissions)) = getSubmissions
                 /\ LET last == getSubmissions'[Len(getSubmissions')]
                    IN  /\ Triple(last) = Triple(r.submission)
                        /\ last.attachmentName = r.file.name
                        /\ last.attachmentData = readAsDataURL(r.file)
        /\ \A j \in 1..Len(getSubmissions') :
             HasAttachment(getSubmissions'[j]) =>
                 getSubmissions'[j].attachmentData.bytes <= 2097152
      ]_vars

\* C15 witness: an attachment of exactly 2,097,152 bytes is stored, and the
\* too-large notice of a later submit is showing.
C15_Witness ==
    /\ \E j \in 1..Len(getSubmissions) :
          /\ HasAttachment(getSubmissions[j])
          /\ getSubmissions[j].attachmentData.bytes = 2097152
          /\ getSubmissions[j].attachmentName = "notes.pdf"
    /\ notice["A"] = TooLargeNotice

\* the integers written after the "m" of the ids of a list
Suffixes(list) == { ParseInt(Tail(list[i].id)) : i \in 1..Len(list) }

AsText(v) == IF v[1] = "#" THEN SubSeq(v, 2, Len(v)) ELSE v

\* the committees the first record of a pid names, if any
FirstCommittees(pid, list) ==
    LET hits == { i \in 1..Len(list) : AsText(list[i].pid) = AsText(pid) }
    IN  IF hits = {} THEN <<>>
        ELSE LET a == list[CHOOSE i \in hits : \A j \in hits : i <= j]
             IN  IF "committees" \in DOMAIN a THEN a.committees ELSE <<>>

\* the k-th smallest member of a set of numbers
Kth(S, k) == CHOOSE i \in S : Cardinality({ j \in S : j <= i }) = k

\* C17: the dashboard of a senator shows exactly the meetings whose committee
\* is named by the first assignment record whose pid, as a string, is the
\* senator's, in the order of the meetings list; getAssignedCommittees is
\* that record's committees, and empty without such a record or without
\* committees in it.
C17_AssignedMeetings ==
    [][ \A t \in AllTabs :
          (PageLoad(t) /\ location[t] = DashboardPage /\ loaded'[t]) =>
            LET pid == session'[t].pid
                committees == FirstCommittees(pid, assignmentsFile)
                shown == { i \in 1..Len(meetingsFile) :
                             \E c \in 1..Len(committees) :
                                committees[c] = meetingsFile[i].committee }
            IN  /\ getAssignedCommittees(pid, assignmentsFile) = committees
                /\ Len(meetings'[t]) = Cardinality(shown)
                /\ \A k \in 1..Len(meetings'[t]) :
                      meetings'[t][k] = meetingsFile[Kth(shown, k)]
      ]_vars

\* C17 witness: a senator whose pid is a number in one file and a string in
\* the other sees the first and third of three meetings.
C17_Witness ==
    /\ loaded["A"]
    /\ IsNumberValue(session["A"].pid)
    /\ Len(assignmentsFile) = 2
    /\ assignmentsFile[1].pid = << "s" >>
    /\ assignmentsFile[2] = Assignment(<< "7" >>, << AcademicAffairs >>)
    /\ meetings["A"] = << MeetingsFileV3[1], MeetingsFileV3[3] >>

\* the persisted assignments, when there are any
PersistedAssignments ==
    JSONparse(getItem(localStorage, ASSIGNMENTS_OVERRIDE).text).value

\* the committees a record names, none when it has no such field
Named(a) == IF "committees" \in DOMAIN a THEN a.committees ELSE <<>>

\* C20: the persisted assignments hold at most one record per pid, and no
\* record names a committee twice.
C20_OneRecordPerPid ==
    getItem(localStorage, ASSIGNMENTS_OVERRIDE).present =>
        LET list == PersistedAssignments
        IN  /\ \A i \in 1..Len(list) : \A j \in (i + 1)..Len(list) :
                  AsText(list[i].pid) # AsText(list[j].pid)
            /\ \A i \in 1..Len(list) :
                  \A c \in 1..Len(Named(list[i])) : \A d \in (c + 1)..Len(Named(list[i])) :
                      Named(list[i])[c] # Named(list[i])[d]

\* C20 witness: three records are persisted, one of them of a pid written as
\* a number to which a second committee was added.
C20_Witness ==
    /\ getItem(localStorage, ASSIGNMENTS_OVERRIDE).present
    /\ Len(PersistedAssignments) = 3
    /\ \E i \in 1..3 :
          /\ IsNumberValue(PersistedAssignments[i].pid)
          /\ Len(Named(PersistedAssignments[i])) = 2
          /\ Len(Named(assignmentsFile[1])) = 1
    /\ Len(assignmentsFile) = 2
    /\ assignmentsFile[1].pid = NumberValue(<< "7" >>)

\* the persisted meetings, when there are any
PersistedMeetings ==
    JSONparse(getItem(localStorage, MEETINGS_OVERRIDE).text).value

\* C18: in one tab, a step never drops or reorders a persisted submission, a
\* completed attachment read appends its submission to what is persisted at
\* that time, and the list an admin page edits is the persisted override
\* whenever there is one, so that each write carries every earlier write.
C18_NoLostUpdate ==
    [][ /\ IsPrefix(getSubmissions, getSubmissions')
        /\ \A r \in AttachmentReads :
              attachmentOnload(r) =>
                 /\ Len(getSubmissions') = Len(getSubmissions) + 1
                 /\ Triple(getSubmissions'[Len(getSubmissions')]) = Triple(r.submission)
        /\ \A t \in AllTabs :
              (location'[t] = AdminPage /\ loaded'[t]) =>
                 /\ getItem(localStorage', MEETINGS_OVERRIDE).present =>
                       meetings'[t] = PersistedMeetings'
                 /\ getItem(localStorage', ASSIGNMENTS_OVERRIDE).present =>
                       assignments'[t] = PersistedAssignments'
      ]_vars

\* C18 witness: two submissions with attachments are persisted, the one
\* submitted first stored last, after the admin changed a meeting and an
\* assignment.
C18_Witness ==
    /\ Len(getSubmissions) = 2
    /\ HasAttachment(getSubmissions[1])
    /\ HasAttachment(getSubmissions[2])
    /\ getSubmissions[1].attachmentName = "notes.pdf"
    /\ getSubmissions[2].attachmentName = "agenda.pdf"
    /\ lastWrite[MEETINGS_OVERRIDE].written
    /\ lastWrite[ASSIGNMENTS_OVERRIDE].written
    /\ fileReads = {}

\* C19: a write of a tab persists the list of that tab with the handler's
\* change, whatever the override held, and leaves the list of the other tab
\* as it was: nothing brings a tab's list up to date with the other's write.
C19_UncoordinatedTabs ==
    [][ \A t \in AllTabs :
          /\ editMeeting(t, 1, "time", "2:00 PM") =>
                /\ PersistedMeetings' = [meetings[t] EXCEPT ![1].time = "2:00 PM"]
                /\ \A u \in AllTabs \ {t} : meetings'[u] = meetings[u]
          /\ addMeeting(t) =>
                /\ Len(PersistedMeetings') = Len(meetings[t]) + 1
                /\ SubSeq(PersistedMeetings', 1, Len(meetings[t])) = meetings[t]
                /\ \A u \in AllTabs \ {t} : meetings'[u] = meetings[u]
          /\ addAssignment(t, <<"s">>, StudentLife) =>
                /\ Len(PersistedAssignments') >= Len(assignments[t])
                /\ \A i \in 1..Len(assignments[t]) :
                      PersistedAssignments'[i].pid = assignments[t][i].pid
                /\ \A u \in AllTabs \ {t} : assignments'[u] = assignments[u]
      ]_vars

\* C19 witness: tab A changed and persisted the time of the first meeting;
\* tab B, holding the list it loaded before, added a meeting; the persisted
\* override is B's list, without A's change.
C19_Witness ==
    /\ Len(meetings["A"]) = 2
    /\ meetings["A"][1].time = "2:00 PM"
    /\ Len(meetings["B"]) = 3
    /\ getItem(localStorage, MEETINGS_OVERRIDE).present
    /\ PersistedMeetings = meetings["B"]
    /\ PersistedMeetings[1].id = meetings["A"][1].id
    /\ PersistedMeetings[1].time = "10:30 AM"

\* C21: an import that ends in the report names, as the imported count, the
\* number of records it appended (size of the collection after, minus size
\* before), and as the total the size of the collection after.
C21_ReportedCounts ==
    [][ \A r \in fileReads :
          (importOnload(r) /\ lastAlert'.kind = "imported") =>
             /\ lastAlert'.imported = Len(getSubmissions') - Len(getSubmissions)
             /\ lastAlert'.total = Len(getSubmissions')
      ]_vars

\* the committees that meetings name
CommitteeSet(list) == { list[i].committee : i \in 1..Len(list) } \ { "" }

\* the place of a committee among the committees of a set, in sorted order
PlaceIn(S, c) == Cardinality({ d \in S : Rank(d) <= Rank(c) })

\* C22: the colour map has exactly the committees the meetings name; the
\* committee at place i (from 0) of their sorted names has palette entry
\* i mod 12, whatever the order of the meetings; with at most 12 committees
\* no two have the same colour.
C22_ColourBySet ==
    vres.called =>
        LET S == CommitteeSet(vres.meetings)
        IN  /\ DOMAIN vres.ret = S
            /\ \A c \in S : vres.ret[c] = palette[((PlaceIn(S, c) - 1) % 12) + 1]
            /\ Cardinality(S) <= 12 =>
                  \A c, d \in S : vres.ret[c] = vres.ret[d] => c = d

\* C22 witness: thirteen committees, meetings not in sorted order, and the
\* last committee has the colour of the first.
C22_Witness ==
    /\ vres.called
    /\ Cardinality(CommitteeSet(vres.meetings)) = 13
    /\ vres.meetings[1].committee = "Technology Committee"
    /\ vres.ret["Technology Committee"] = "#861f41"
    /\ vres.ret["Academic Affairs Committee"] = "#861f41"
    /\ vres.ret["Student Life Committee"] = "#2b9348"

\* C23: for the session of every reachable state (none, a senator's, an
\* admin's) and each protected page, the guard of the page returns the
\* session, or redirects to the login page when there is no session, or
\* redirects to a protected page whose own guard returns the session: a
\* second redirect never follows.
C23_OneRedirect ==
    \A page \in { DashboardPage, AdminPage } :
        LET r == requireAuth(RequiredRole(page))
        IN  IF r.ret # null
            THEN r.ret = getSession /\ r.href = NoRedirect
            ELSE IF getSession = null
            THEN r.href = IndexPage
            ELSE /\ getSession.role \in { "senator", "admin" }
                 /\ r.href \in { DashboardPage, AdminPage } \ { page }
                 /\ requireAuth(RequiredRole(r.href)).ret = getSession
                 /\ requireAuth(RequiredRole(r.href)).href = NoRedirect

\* C23 witness: the session is an admin's, the guard of the senator dashboard
\* redirects it to the admin page, and the tab is on the admin page, whose
\* guard returns the session, before that page has loaded.
C23_Witness ==
    /\ getSession # null /\ getSession.role = "admin"
    /\ requireAuth("senator").ret = null
    /\ requireAuth("senator").href = AdminPage
    /\ location["A"] = AdminPage /\ ~loaded["A"]
    /\ requireAuth("admin").ret = getSession
    /\ lastWrite[MEETINGS_OVERRIDE].written

\* C24: the persisted meetings have pairwise distinct ids, and a persisted
\* meeting whose id a stored submission names is the meeting the submission
\* was made for (same name and committee; the admin edits times only here):
\* the id of a removed meeting is not given to a meeting created later.
C24_StableIds ==
    getItem(localStorage, MEETINGS_OVERRIDE).present =>
        LET list == PersistedMeetings
        IN  /\ \A i \in 1..Len(list) : \A j \in (i + 1)..Len(list) :
                  list[i].id # list[j].id
            /\ \A i \in 1..Len(list) : \A k \in 1..Len(getSubmissions) :
                  list[i].id = getSubmissions[k].meetingId =>
                     /\ list[i].name = getSubmissions[k].meetingName
                     /\ list[i].committee = getSubmissions[k].committeeName

====
